---- MODULE Spec2Model ----
(***************************************************************************)
(* The OpenML dataset metadata record (schemas/datasets/openml.py) and its *)
(* conversion to an MLDCAT-AP JSON-LD graph (schemas/datasets/mldcat_ap.py)*)
(*                                                                         *)
(* Python values are modelled as follows: a str is a string, an int an     *)
(* integer, a list a sequence, a pydantic model instance a record of its   *)
(* fields, keyword arguments / a dict a function from key strings to       *)
(* values, a StrEnum member the string that is its value, an HttpUrl the   *)
(* string of the URL, a datetime a record of its components.               *)
(***************************************************************************)
EXTENDS Integers, Sequences, FiniteSets, TLC

VARIABLES
    pc,         \* where the caller is: see Phases
    built,      \* the class the caller constructed last, or None
    data,       \* the keyword arguments handed to DatasetMetadata(...)
    dataset,    \* the DatasetMetadata record built from data
    graph,      \* the JsonLDGraph convert_to_mldcat_ap returned
    document,   \* the graph dumped by serialization alias
    reread,     \* the graph's nodes read back from document
    kwargs,     \* the keyword arguments handed to a node class directly
    node,       \* the node built from kwargs
    raised      \* the exception the last call raised, or None

vars == <<pc, built, data, dataset, graph, document, reread, kwargs, node, raised>>

Phases == {"idle", "record", "invalid", "graph", "failed", "document", "reread",
           "node", "node_invalid", "assigned"}

\* Python's None. No input string of the model equals it.
None == "None"
\* What a variable holds before anything was assigned to it.
NoValue == [unset |-> TRUE]

ValidationError == "ValidationError"
Ok(v) == [raised |-> None, value |-> v]
Raise(e) == [raised |-> e, value |-> NoValue]

(***************************************************************************)
(* Bounds                                                                  *)
(***************************************************************************)
\* Record ids are drawn from -1 .. MaxId, and 130 (three digits).
MaxId == 1
\* A list handed to a node class directly holds at most MaxItems items.
MaxItems == 2

(***************************************************************************)
(* str() of the values the conversion formats                              *)
(***************************************************************************)
Digits == <<"0", "1", "2", "3", "4", "5", "6", "7", "8", "9">>

RECURSIVE NatStr(_)
NatStr(n) == IF n < 10 THEN Digits[n + 1]
             ELSE NatStr(n \div 10) \o Digits[(n % 10) + 1]

\* str(int): decimal digits, a leading "-" for a negative number.
str_int(n) == IF n < 0 THEN "-" \o NatStr(0 - n) ELSE NatStr(n)

RECURSIVE ZeroPad(_, _)
\* "%0<width>d" of a natural number.
ZeroPad(n, width) == IF width <= 1 THEN NatStr(n)
                     ELSE IF Len(NatStr(n)) >= width THEN NatStr(n)
                     ELSE "0" \o ZeroPad(n, width - 1)

\* str(datetime) of a naive datetime: isoformat(sep=" "), the microseconds
\* printed only when they are not zero.
str_datetime(d) ==
    ZeroPad(d.year, 4) \o "-" \o ZeroPad(d.month, 2) \o "-" \o ZeroPad(d.day, 2)
    \o " " \o ZeroPad(d.hour, 2) \o ":" \o ZeroPad(d.minute, 2)
    \o ":" \o ZeroPad(d.second, 2)
    \o (IF d.microsecond = 0 THEN "" ELSE "." \o ZeroPad(d.microsecond, 6))

datetime(y, mo, d, h, mi, s, us) ==
    [year |-> y, month |-> mo, day |-> d, hour |-> h, minute |-> mi,
     second |-> s, microsecond |-> us]

(***************************************************************************)
(* schemas/datasets/openml.py                                              *)
(***************************************************************************)
DatasetFileFormat == {"arff", "sparse_arff", "parquet"}
Visibility == {"public", "private"}
DatasetStatus == {"active", "deactivated", "in processing", "in_preparation"}

Attr(name, alias) == [name |-> name, alias |-> alias]

\* The fields of DatasetMetadata in declaration order: the attribute name and
\* the key it is populated by (Field(alias=...), else the name). None of them
\* has a default, so each is required.
DatasetMetadataFields == <<
    Attr("id_", "id"), Attr("visibility", "visibility"), Attr("status", "status"),
    Attr("name", "name"), Attr("licence", "licence"), Attr("version", "version"),
    Attr("version_label", "version_label"), Attr("language", "language"),
    Attr("creators", "creator"), Attr("contributors", "contributor"),
    Attr("citation", "citation"), Attr("paper_url", "paper_url"),
    Attr("upload_date", "upload_date"), Attr("processing_date", "processing_date"),
    Attr("processing_error", "error"), Attr("processing_warning", "warning"),
    Attr("collection_date", "collection_date"), Attr("description", "description"),
    Attr("description_version", "description_version"), Attr("tags", "tag"),
    Attr("default_target_attribute", "default_target_attribute"),
    Attr("ignore_attribute", "ignore_attribute"),
    Attr("row_id_attribute", "row_id_attribute"), Attr("url", "url"),
    Attr("parquet_url", "parquet_url"), Attr("minio_url", "minio_url"),
    Attr("file_id", "file_id"), Attr("format_", "format"),
    Attr("original_data_url", "original_data_url"),
    Attr("md5_checksum", "md5_checksum") >>

DatasetMetadataKeys == {DatasetMetadataFields[i].alias : i \in DOMAIN DatasetMetadataFields}

AliasOf(fields, name) ==
    fields[CHOOSE i \in DOMAIN fields : fields[i].name = name].alias

\* A mutant of EnumsValid: the status is any string.
EnumsValidButStatus(d) ==
    /\ d.visibility \in Visibility
    /\ d.format \in DatasetFileFormat

\* A mutant of EnumsValid: the file format is compared without regard to case,
\* here by accepting the upper-case spelling too.
EnumsValidAnyCase(d) ==
    /\ d.visibility \in Visibility
    /\ d.status \in DatasetStatus
    /\ d.format \in DatasetFileFormat \cup {"ARFF"}

\* The enumerated fields hold a value of their StrEnum.
EnumsValid(d) ==
    /\ d.visibility \in Visibility
    /\ d.status \in DatasetStatus
    /\ d.format \in DatasetFileFormat

\* DatasetMetadata(**d): pydantic's validation of the keyword arguments d.
\* (The model checks presence and the enumerations; the inputs drawn below
\* have the right primitive types.)
DatasetMetadata(d) ==
    IF \E k \in DatasetMetadataKeys : k \notin DOMAIN d
    THEN Raise(ValidationError)
    ELSE IF ~EnumsValid(d)
    THEN Raise(ValidationError)
    ELSE Ok([n \in {DatasetMetadataFields[i].name : i \in DOMAIN DatasetMetadataFields}
                |-> d[AliasOf(DatasetMetadataFields, n)]])

(***************************************************************************)
(* The keyword arguments the model hands to DatasetMetadata                *)
(***************************************************************************)
\* The json_schema_extra examples of openml.py.
Example == [
    id |-> 1, visibility |-> "public", status |-> "active", name |-> "Anneal",
    licence |-> "CC0", version |-> 2, version_label |-> "2", language |-> "English",
    creator |-> <<"David Sterling", "Wray Buntine">>,
    contributor |-> <<"David Sterling", "Wray Buntine">>,
    citation |-> "https://archive.ics.uci.edu/ml/citation_policy.html",
    paper_url |-> "http://digital.library.adelaide.edu.au/dspace/handle/2440/15227",
    upload_date |-> datetime(2014, 4, 6, 23, 19, 20, 0),
    processing_date |-> datetime(2019, 7, 9, 15, 22, 3, 0),
    error |-> "Please provide description XML.", warning |-> None,
    collection_date |-> "1990",
    description |-> "The original Annealing dataset from UCI.",
    description_version |-> 2, tag |-> <<"study_1", "uci">>,
    default_target_attribute |-> "class", ignore_attribute |-> None,
    row_id_attribute |-> None,
    url |-> "https://www.openml.org/data/download/1/dataset_1_anneal.arff",
    parquet_url |-> "http://openml1.win.tue.nl/dataset2/dataset_2.pq",
    minio_url |-> "http://openml1.win.tue.nl/dataset2/dataset_2.pq",
    file_id |-> 1, format |-> "arff", original_data_url |-> None,
    md5_checksum |-> "d01f6ccd68c88b749b20bbe897de3713" ]

Ids == ((0 - 1) .. MaxId) \cup {130}
Formats == DatasetFileFormat \cup {"ARFF"}
Statuses == DatasetStatus \cup {"archived"}
Visibilities == Visibility \cup {"hidden"}
Names == {"", "Anneal"}
Descriptions == {"", "The original Annealing dataset from UCI."}
CollectionDates == {None, "1990"}
UploadDates == {datetime(2014, 4, 6, 23, 19, 20, 0), datetime(987, 12, 31, 0, 5, 9, 4200)}
Checksums == {"d01f6ccd68c88b749b20bbe897de3713", "00000000000000000000000000000000"}

\* Every key present.
FullInputs ==
    {[Example EXCEPT !.id = i, !.visibility = v, !.status = s, !.format = f,
                     !.name = n, !.description = de, !.collection_date = cd,
                     !.upload_date = ud, !.md5_checksum = m] :
        i \in Ids, v \in Visibilities, s \in Statuses, f \in Formats, n \in Names,
        de \in Descriptions, cd \in CollectionDates, ud \in UploadDates,
        m \in Checksums}

Without(d, k) == [x \in (DOMAIN d) \ {k} |-> d[x]]

\* The example with one key left out.
PartialInputs == {Without(Example, k) : k \in DatasetMetadataKeys}

(***************************************************************************)
(* schemas/datasets/mldcat_ap.py: the node classes                         *)
(***************************************************************************)
\* One declared field: its attribute name, its serialization alias (the name
\* when Field gives none), whether it has no default, its default (the value
\* default_factory returns), Field(min_length=...) (0 when not given), and
\* whether it is annotated Literal[...].
Required(name, alias) ==
    [name |-> name, alias |-> alias, required |-> TRUE, default |-> None,
     min_length |-> 0, literal |-> FALSE]
Optional(name, alias, default, min_length) ==
    [name |-> name, alias |-> alias, required |-> FALSE, default |-> default,
     min_length |-> min_length, literal |-> FALSE]
\* A field annotated Literal[value], with that value as its default.
Literal(name, alias, value) ==
    [name |-> name, alias |-> alias, required |-> FALSE, default |-> value,
     min_length |-> 0, literal |-> TRUE]

JsonLDQualifiedLiteralFields == <<
    Required("type_", "@type"), Required("value", "@value") >>

JsonLDObjectReferenceFields == << Required("id_", "@id") >>

AgentFields == <<
    Required("id_", "@id"), Literal("type_", "@type", "Agent"),
    Optional("name", "name", <<>>, 1) >>

MD5ChecksumFields == <<
    Required("id_", "@id"), Literal("type_", "@type", "Checksum"),
    Literal("algorithm", "algorithm",
            "http://spdx.org/rdf/terms#checksumAlgorithm_md5"),
    Required("value", "checksumValue") >>

FeatureFields == <<
    Required("id_", "@id"), Literal("type_", "@type", "Feature"),
    Required("name", "name"), Required("feature_type", "type"),
    Optional("description", "description", None, 0) >>

QualityTypeFields == <<
    Required("id_", "@id"), Literal("type_", "@type", "QualityType"),
    Required("name", "name"), Required("quality_id", "id") >>

QualityFields == <<
    Required("id_", "@id"), Literal("type_", "@type", "Quality"),
    Required("quality_type", "type"), Required("value", "value") >>

DistributionFields == <<
    Required("id_", "@id"), Literal("type_", "@type", "Distribution"),
    Optional("access_url", "accessUrl", <<>>, 1),
    Optional("has_feature", "hasFeature", <<>>, 1),
    Optional("has_quality", "hasQuality", <<>>, 1),
    Optional("byte_size", "byteSize", None, 0),
    Optional("default_target_attribute", "defaultTargetAttribute", None, 0),
    Optional("download_url", "downloadUrl", <<>>, 0),
    Optional("format_", "format", None, 0),
    Optional("identifier", "identifier", None, 0),
    Optional("ignore_attribute", "ignoreAttirbute", <<>>, 0),
    Optional("processing_error", "processingError", None, 0),
    Optional("processing_warning", "processingWarning", None, 0),
    Optional("processing_data", "processingDate", None, 0),
    Optional("row_id_attribute", "rowIDAttribute", None, 0),
    Optional("title", "title", <<>>, 0),
    Optional("checksum", "checksum", None, 0),
    Optional("access_service", "accessService", <<>>, 0) >>

DatasetFields == <<
    Required("id_", "@id"), Literal("type_", "@type", "Dataset"),
    Required("collection_date", "collectionDate"),
    Optional("description", "description", <<>>, 1),
    Optional("title", "title", <<>>, 1),
    Optional("access_rights", "accessRights", None, 0),
    Optional("contributor", "contributor", <<>>, 0),
    Optional("creator", "creator", None, 0),
    Optional("distribution", "distribution", <<>>, 0),
    Optional("has_version", "hasVersion", <<>>, 0),
    Optional("identifier", "identifier", <<>>, 0),
    Optional("is_referenced_by", "isReferencedBy", <<>>, 0),
    Optional("is_version_of", "isVersionOf", <<>>, 0),
    Optional("issued", "issued", None, 0),
    Optional("keyword", "keyword", <<>>, 0),
    Optional("landing_page", "landingPage", <<>>, 0),
    Optional("publisher", "publisher", None, 0),
    Optional("status", "status", None, 0),
    Optional("version_info", "versionInfo", None, 0),
    Optional("version_label", "versionLabel", None, 0),
    Optional("visibility", "visibility", None, 0) >>

DataServiceFields == <<
    Required("id_", "@id"), Literal("type_", "@type", "DataService"),
    Required("endpoint_url", "endpointUrl"),
    Optional("title", "title", <<>>, 1),
    Optional("serves_dataset", "servesDataset", <<>>, 0) >>

\* context defaults to an empty dict, graph to an empty list.
JsonLDGraphFields == <<
    Optional("context", "@context", <<>>, 0),
    Optional("graph", "@graph", <<>>, 0) >>

\* The node kinds a graph lists, embeds or refers to.
Classes == {"JsonLDQualifiedLiteral", "JsonLDObjectReference", "Agent",
            "MD5Checksum", "Feature", "QualityType", "Quality", "Distribution",
            "Dataset", "DataService", "JsonLDGraph"}

model_fields(cls) ==
    CASE cls = "JsonLDQualifiedLiteral" -> JsonLDQualifiedLiteralFields
      [] cls = "JsonLDObjectReference" -> JsonLDObjectReferenceFields
      [] cls = "Agent" -> AgentFields
      [] cls = "MD5Checksum" -> MD5ChecksumFields
      [] cls = "Feature" -> FeatureFields
      [] cls = "QualityType" -> QualityTypeFields
      [] cls = "Quality" -> QualityFields
      [] cls = "Distribution" -> DistributionFields
      [] cls = "Dataset" -> DatasetFields
      [] cls = "DataService" -> DataServiceFields
      [] cls = "JsonLDGraph" -> JsonLDGraphFields

FieldNames(fields) == {fields[i].name : i \in DOMAIN fields}

FieldOf(fields, name) == fields[CHOOSE i \in DOMAIN fields : fields[i].name = name]

\* The value a validated instance holds for a field: the argument when one
\* was supplied, else the field's default.
FieldValue(fields, kw, name) ==
    IF name \in DOMAIN kw THEN kw[name] ELSE FieldOf(fields, name).default

\* A mutant of ConstraintsHold: min_length is not enforced.
ConstraintsIgnored(fields, kw) == TRUE

\* Field(min_length=n) holds of every SUPPLIED argument. pydantic does not
\* validate a default (validate_default is off), so a left-out field is
\* not looked at.
ConstraintsHold(fields, kw) ==
    \A i \in DOMAIN fields :
        (fields[i].min_length > 0 /\ fields[i].name \in DOMAIN kw) =>
            Len(kw[fields[i].name]) >= fields[i].min_length

\* A field annotated Literal[...] accepts only that value, its default.
LiteralsHold(fields, kw) ==
    \A i \in DOMAIN fields :
        (fields[i].literal /\ fields[i].name \in DOMAIN kw) =>
            kw[fields[i].name] = fields[i].default

\* cls(**kw) for the class with the given fields: pydantic's validation of
\* keyword arguments given by field name (the aliases are serialization
\* aliases only). extra="forbid" rejects an unknown key. The model leaves the
\* primitive types unchecked.
BaseModel(fields, kw) ==
    IF \E k \in DOMAIN kw : k \notin FieldNames(fields)
    THEN Raise(ValidationError)
    ELSE IF \E i \in DOMAIN fields : fields[i].required /\ fields[i].name \notin DOMAIN kw
    THEN Raise(ValidationError)
    ELSE IF ~LiteralsHold(fields, kw)
    THEN Raise(ValidationError)
    ELSE IF ~ConstraintsHold(fields, kw)
    THEN Raise(ValidationError)
    ELSE Ok([n \in FieldNames(fields) |-> FieldValue(fields, kw, n)])

\* model_config.get("frozen"): no model_config of the two modules sets it
\* (DatasetMetadata has no model_config at all), so it is pydantic's default.
frozen == FALSE

\* obj.name = value on an instance of the class with the given fields:
\* pydantic's BaseModel.__setattr__. A frozen model raises; a name that is no
\* field raises; else the value is stored as it is (validate_assignment is
\* off).
setattr(fields, obj, name, value) ==
    IF frozen THEN Raise(ValidationError)
    ELSE IF name \notin FieldNames(fields) THEN Raise("ValueError")
    ELSE Ok([obj EXCEPT ![name] = value])

\* JsonLDObjectReference[T].to(json_ld_object)
to(json_ld_object) ==
    BaseModel(JsonLDObjectReferenceFields, [id_ |-> json_ld_object.id_])

(***************************************************************************)
(* schemas/datasets/mldcat_ap.py: convert_to_mldcat_ap                     *)
(***************************************************************************)
Context == "https://semiceu.github.io/MLDCAT-AP/releases/1.0.0/context/mldcat-ap.jsonld"
XsdDateTime == "http://www.w3.org/2001/XMLSchema#dateTime"

arff_service ==
    BaseModel(DataServiceFields,
              [id_ |-> "openml-arff-service", title |-> <<"OpenML ARFF server">>,
               endpoint_url |-> "https://www.openml.org/data/download"])

example_feature ==
    BaseModel(FeatureFields,
              [id_ |-> "example-petal-width", name |-> "example_petal_width",
               feature_type |-> "Numeric",
               description |-> "Feature information not loaded, this is an example."])

example_quality_type ==
    BaseModel(QualityTypeFields,
              [id_ |-> "quality-type-example", name |-> "number_of_features",
               quality_id |-> "link_to_definition"])

example_quality ==
    IF example_quality_type.raised # None THEN example_quality_type
    ELSE BaseModel(QualityFields,
                   [id_ |-> "example-quality",
                    quality_type |-> example_quality_type.value, value |-> "150"])

\* checksum = MD5Checksum(id_="checksum-id", value=dataset.md5_checksum)
ChecksumOf(ds) ==
    BaseModel(MD5ChecksumFields, [id_ |-> "checksum-id", value |-> ds.md5_checksum])

\* A mutant of AccessUrl: the template is filled with the record's file id.
AccessUrlOfFile(ds) == "https://www.openml.org/d/" \o str_int(ds.file_id)

\* f"https://www.openml.org/d/{dataset.id_}"
AccessUrl(ds) == "https://www.openml.org/d/" \o str_int(ds.id_)

\* distribution = Distribution(...): called once the four nodes it refers to
\* were built.
DistributionOf(ds, feature, quality, checksum, service) ==
    BaseModel(DistributionFields,
              [id_ |-> "distribution-id",
               access_url |-> <<AccessUrl(ds)>>,
               has_feature |-> <<to(feature).value>>,
               has_quality |-> <<to(quality).value>>,
               default_target_attribute |-> ds.default_target_attribute,
               download_url |-> <<ds.url>>,
               format_ |-> ds.format_,
               checksum |-> to(checksum).value,
               access_service |-> <<to(service).value>>])

\* A mutant of DatasetId: the Dataset node gets a fixed id, as the other
\* nodes do, and takes the Distribution's.
DatasetIdFixed(ds) == "distribution-id"

\* id_=str(dataset.id_)
DatasetId(ds) == str_int(ds.id_)

\* mldcat_dataset = Dataset(...)
MldcatDatasetOf(ds, distribution) ==
    LET issued == BaseModel(JsonLDQualifiedLiteralFields,
                            [value |-> str_datetime(ds.upload_date),
                             type_ |-> XsdDateTime])
    IN  IF issued.raised # None THEN issued
        ELSE BaseModel(DatasetFields,
              [id_ |-> DatasetId(ds),
               type_ |-> "Dataset",
               collection_date |-> str_datetime(ds.upload_date),
               description |-> <<ds.description>>,
               title |-> <<ds.name>>,
               distribution |-> <<to(distribution).value>>,
               status |-> ds.status,
               version_info |-> str_int(ds.version),
               version_label |-> ds.version_label,
               visibility |-> ds.visibility,
               keyword |-> ds.tags,
               issued |-> issued.value])

\* A mutant of GraphNodes: the Dataset node is listed before the Distribution.
GraphNodesDatasetFirst(service, distribution, mldcat_dataset, feature, quality, checksum) ==
    <<service, mldcat_dataset, distribution, feature, quality, checksum>>

\* graph=[arff_service, distribution, mldcat_dataset, example_feature,
\*        example_quality, checksum]
GraphNodes(service, distribution, mldcat_dataset, feature, quality, checksum) ==
    <<service, distribution, mldcat_dataset, feature, quality, checksum>>

\* convert_to_mldcat_ap(dataset): the constructors run in the order of the
\* code, and the first one that raises ends the call.
convert_to_mldcat_ap(ds) ==
    LET checksum == ChecksumOf(ds)
        distribution == DistributionOf(ds, example_feature.value, example_quality.value,
                                       checksum.value, arff_service.value)
        mldcat_dataset == MldcatDatasetOf(ds, distribution.value)
    IN  IF arff_service.raised # None THEN arff_service
        ELSE IF example_feature.raised # None THEN example_feature
        ELSE IF example_quality.raised # None THEN example_quality
        ELSE IF checksum.raised # None THEN checksum
        ELSE IF distribution.raised # None THEN distribution
        ELSE IF mldcat_dataset.raised # None THEN mldcat_dataset
        ELSE BaseModel(JsonLDGraphFields,
                       [context |-> Context,
                        graph |-> GraphNodes(arff_service.value, distribution.value,
                                             mldcat_dataset.value, example_feature.value,
                                             example_quality.value, checksum.value)])

(***************************************************************************)
(* Serialization by alias                                                  *)
(***************************************************************************)
\* A mutant of serialization_alias: QualityType.quality_id is given the
\* JSON-LD key "@id" rather than "id".
serialization_alias_at_id(cls, name) ==
    IF cls = "QualityType" /\ name = "quality_id" THEN "@id"
    ELSE FieldOf(model_fields(cls), name).alias

\* Field(serialization_alias=...) of a field, its name when it has none.
serialization_alias(cls, name) == FieldOf(model_fields(cls), name).alias

\* The class of a top-level node with the given type tag.
ClassOfType(type) == IF type = "Checksum" THEN "MD5Checksum" ELSE type

\* What the value of a field is at run time in a graph convert_to_mldcat_ap
\* built: "nodes" (the graph's node list), "refs" (a list of references),
\* "ref" (one reference), a class name (one embedded instance), or "plain"
\* (a str, None, or a list of str).
ValueKind(cls, name) ==
    CASE cls = "JsonLDGraph" /\ name = "graph" -> "nodes"
      [] cls = "Quality" /\ name = "quality_type" -> "QualityType"
      [] cls = "Dataset" /\ name = "issued" -> "JsonLDQualifiedLiteral"
      [] cls = "Dataset" /\ name \in {"distribution", "contributor", "has_version",
                                      "is_version_of"} -> "refs"
      [] cls = "Distribution" /\ name \in {"has_feature", "has_quality",
                                           "access_service"} -> "refs"
      [] cls = "Distribution" /\ name = "checksum" -> "ref"
      [] cls = "DataService" /\ name = "serves_dataset" -> "refs"
      [] OTHER -> "plain"

\* The field whose value a dumped key carries: a dict keeps the last value
\* written under a key, and the fields are written in declaration order.
DumpedField(cls, key) ==
    LET fields == model_fields(cls)
        last == CHOOSE i \in DOMAIN fields :
                    /\ serialization_alias(cls, fields[i].name) = key
                    /\ \A j \in DOMAIN fields :
                          serialization_alias(cls, fields[j].name) = key => j <= i
    IN  fields[last].name

RECURSIVE model_dump(_, _)
\* obj.model_dump(by_alias=True) of an instance of cls: a dict keyed by the
\* serialization aliases, the embedded instances dumped the same way.
model_dump(cls, obj) ==
    [key \in {serialization_alias(cls, n) : n \in FieldNames(model_fields(cls))} |->
        LET name == DumpedField(cls, key)
            kind == ValueKind(cls, name)
            v == obj[name]
        IN  CASE kind = "plain" -> v
              [] kind = "ref" -> model_dump("JsonLDObjectReference", v)
              [] kind = "refs" ->
                    [k \in DOMAIN v |-> model_dump("JsonLDObjectReference", v[k])]
              [] kind = "nodes" ->
                    [k \in DOMAIN v |-> model_dump(ClassOfType(v[k].type_), v[k])]
              [] OTHER -> model_dump(kind, v)]

RECURSIVE model_load(_, _)
\* A reader of the dumped form: each field is read from the key that is its
\* alias, the embedded instances read the same way.
model_load(cls, doc) ==
    [name \in FieldNames(model_fields(cls)) |->
        LET kind == ValueKind(cls, name)
            v == doc[serialization_alias(cls, name)]
        IN  CASE kind = "plain" -> v
              [] kind = "ref" -> model_load("JsonLDObjectReference", v)
              [] kind = "refs" ->
                    [k \in DOMAIN v |-> model_load("JsonLDObjectReference", v[k])]
              [] kind = "nodes" ->
                    [k \in DOMAIN v |-> model_load(ClassOfType(v[k]["@type"]), v[k])]
              [] OTHER -> model_load(kind, v)]

(***************************************************************************)
(* The keyword arguments the model hands to the node classes directly      *)
(***************************************************************************)
\* The lists of at most MaxItems items of S.
Lists(S) == UNION {[1 .. n -> S] : n \in 0 .. MaxItems}

\* The ways to pass the keyword argument key: not at all, or with a value.
MaybeArg(key, values) == {[k \in {} |-> k]} \cup {key :> v : v \in values}

DistributionInputs ==
    {[id_ |-> "distribution-id"] @@ u @@ f @@ q :
        u \in MaybeArg("access_url", {<<"https://www.openml.org/d/1">>}),
        f \in MaybeArg("has_feature", Lists({[id_ |-> "example-petal-width"]})),
        q \in MaybeArg("has_quality", Lists({[id_ |-> "example-quality"]}))}

DatasetInputs ==
    {[id_ |-> "1", collection_date |-> "1990"] @@ t @@ d :
        t \in MaybeArg("title", Lists(Names)),
        d \in MaybeArg("description", Lists({"The original Annealing dataset from UCI."}))}

Init ==
    /\ pc = "idle"
    /\ built = None
    /\ data = NoValue
    /\ dataset = NoValue
    /\ graph = NoValue
    /\ document = NoValue
    /\ reread = NoValue
    /\ kwargs = NoValue
    /\ node = NoValue
    /\ raised = None

\* A caller constructs a DatasetMetadata record.
NewDatasetMetadata ==
    /\ pc = "idle"
    /\ \E d \in FullInputs \cup PartialInputs :
        LET r == DatasetMetadata(d) IN
        /\ data' = d
        /\ dataset' = r.value
        /\ raised' = r.raised
        /\ pc' = IF r.raised = None THEN "record" ELSE "invalid"
    /\ built' = "DatasetMetadata"
    /\ UNCHANGED <<graph, document, reread, kwargs, node>>

\* The caller converts the record it holds.
Convert ==
    /\ pc = "record"
    /\ LET r == convert_to_mldcat_ap(dataset) IN
        /\ graph' = r.value
        /\ raised' = r.raised
        /\ pc' = IF r.raised = None THEN "graph" ELSE "failed"
    /\ UNCHANGED <<built, data, dataset, document, reread, kwargs, node>>

\* The boundary layer dumps the graph by alias.
Serialize ==
    /\ pc = "graph"
    /\ document' = model_dump("JsonLDGraph", graph)
    /\ pc' = "document"
    /\ UNCHANGED <<built, data, dataset, graph, reread, kwargs, node, raised>>

\* A reader of the document reads the fields back from their aliases.
ReadBack ==
    /\ pc = "document"
    /\ reread' = model_load("JsonLDGraph", document)
    /\ pc' = "reread"
    /\ UNCHANGED <<built, data, dataset, graph, document, kwargs, node, raised>>

\* The caller assigns to a field of the record it passed: dataset.name = v.
AssignRecordField ==
    /\ pc = "graph"
    /\ \E v \in {"renamed"} :
        LET names == {DatasetMetadataFields[i].name : i \in DOMAIN DatasetMetadataFields}
            r == IF frozen THEN Raise(ValidationError)
                 ELSE IF "name" \notin names THEN Raise("ValueError")
                 ELSE Ok([dataset EXCEPT !["name"] = v])
        IN  /\ dataset' = IF r.raised = None THEN r.value ELSE dataset
            /\ raised' = r.raised
    /\ pc' = "assigned"
    /\ UNCHANGED <<built, data, graph, document, reread, kwargs, node>>

\* The caller assigns to a field of a node of the returned graph:
\* graph.graph[i].id_ = v.
AssignNodeField ==
    /\ pc = "graph"
    /\ \E i \in DOMAIN graph.graph, v \in {"renamed"} :
        LET r == setattr(model_fields(ClassOfType(graph.graph[i].type_)),
                         graph.graph[i], "id_", v)
        IN  /\ graph' = IF r.raised = None
                        THEN [graph EXCEPT !.graph[i] = r.value] ELSE graph
            /\ raised' = r.raised
    /\ pc' = "assigned"
    /\ UNCHANGED <<built, data, dataset, document, reread, kwargs, node>>

\* The caller assigns a shorter list to the graph's node list:
\* graph.graph = graph.graph[:-1].
AssignGraphNodes ==
    /\ pc = "graph"
    /\ LET r == setattr(JsonLDGraphFields, graph, "graph",
                        SubSeq(graph.graph, 1, Len(graph.graph) - 1))
       IN  /\ graph' = IF r.raised = None THEN r.value ELSE graph
           /\ raised' = r.raised
    /\ pc' = "assigned"
    /\ UNCHANGED <<built, data, dataset, document, reread, kwargs, node>>

\* A caller constructs a Distribution node directly.
NewDistribution ==
    /\ pc = "idle"
    /\ \E kw \in DistributionInputs :
        /\ kwargs' = kw
        /\ node' = BaseModel(DistributionFields, kw).value
        /\ raised' = BaseModel(DistributionFields, kw).raised
        /\ pc' = IF BaseModel(DistributionFields, kw).raised = None
                 THEN "node" ELSE "node_invalid"
    /\ built' = "Distribution"
    /\ UNCHANGED <<data, dataset, graph, document, reread>>

\* A caller constructs a Dataset node directly.
NewDataset ==
    /\ pc = "idle"
    /\ \E kw \in DatasetInputs :
        /\ kwargs' = kw
        /\ node' = BaseModel(DatasetFields, kw).value
        /\ raised' = BaseModel(DatasetFields, kw).raised
        /\ pc' = IF BaseModel(DatasetFields, kw).raised = None
                 THEN "node" ELSE "node_invalid"
    /\ built' = "Dataset"
    /\ UNCHANGED <<data, dataset, graph, document, reread>>

\* The call is over and its values are dropped.
Reset ==
    /\ pc # "idle"
    /\ pc' = "idle"
    /\ built' = None
    /\ data' = NoValue
    /\ dataset' = NoValue
    /\ graph' = NoValue
    /\ document' = NoValue
    /\ reread' = NoValue
    /\ kwargs' = NoValue
    /\ node' = NoValue
    /\ raised' = None

Next ==
    \/ NewDatasetMetadata
    \/ Convert
    \/ Serialize
    \/ ReadBack
    \/ NewDistribution
    \/ NewDataset
    \/ Reset

Spec == Init /\ [][Next]_vars

\* The calls of Next, and the assignments a holder of the record and of the
\* returned graph can make.
NextAssign ==
    \/ Next
    \/ AssignRecordField
    \/ AssignNodeField
    \/ AssignGraphNodes

SpecAssign == Init /\ [][NextAssign]_vars

TypeOK == pc \in Phases

(***************************************************************************)
(* Reading a graph                                                         *)
(***************************************************************************)
\* The phases in which graph holds what convert_to_mldcat_ap returned.
Converted == {"graph", "document", "reread"}
\* The phases in which data holds all the keys of a record.
FullData == DOMAIN data = DatasetMetadataKeys

\* The top-level nodes of g with the given id.
NodesWithId(g, id) == {i \in DOMAIN g.graph : g.graph[i].id_ = id}

\* The reference resolves: one top-level node has its id, and is of the type.
Resolves(g, ref, type) ==
    /\ Cardinality(NodesWithId(g, ref.id_)) = 1
    /\ \A i \in NodesWithId(g, ref.id_) : g.graph[i].type_ = type

AllResolve(g, refs, type) == \A k \in DOMAIN refs : Resolves(g, refs[k], type)

\* The first top-level node of the given type.
NodeOfType(g, type) == g.graph[CHOOSE i \in DOMAIN g.graph : g.graph[i].type_ = type]

\* The references a node holds resolve to nodes of the type their field is
\* declared for: list[JsonLDObjectReference[T]] or JsonLDObjectReference[T].
NodeReferencesResolve(g, n) ==
    /\ n.type_ = "Dataset" => AllResolve(g, n.distribution, "Distribution")
    /\ n.type_ = "Distribution" =>
        /\ AllResolve(g, n.has_feature, "Feature")
        /\ AllResolve(g, n.has_quality, "Quality")
        /\ Resolves(g, n.checksum, "Checksum")
        /\ AllResolve(g, n.access_service, "DataService")
    /\ n.type_ = "DataService" => AllResolve(g, n.serves_dataset, "Dataset")

(***************************************************************************)
(* The claims                                                              *)
(***************************************************************************)
\* C1: for every valid record the conversion succeeds, and in its graph every
\* reference (Dataset.distribution, Distribution.hasFeature, hasQuality,
\* checksum, accessService, DataService.servesDataset) has the id of exactly
\* one top-level node, which is of the kind the reference is declared for,
\* and no two top-level nodes share an id.
C1_ReferencesResolve ==
    /\ pc # "failed"
    /\ pc \in Converted =>
        /\ \A i \in DOMAIN graph.graph : NodeReferencesResolve(graph, graph.graph[i])
        /\ \A i, j \in DOMAIN graph.graph :
              graph.graph[i].id_ = graph.graph[j].id_ => i = j

\* C1's case: a graph was returned for a record with a multi-digit id; its
\* Distribution holds a checksum reference and its Dataset a distribution one.
C1_Witness ==
    /\ pc = "graph"
    /\ dataset.id_ = 130
    /\ NodeOfType(graph, "Dataset").id_ = "130"
    /\ Len(NodeOfType(graph, "Dataset").distribution) = 1
    /\ NodeOfType(graph, "Distribution").checksum.id_ = "checksum-id"

\* C2 as claimed: the Dataset node's collectionDate is a copy of the record's
\* collection_date.
C2_CollectionDateCopied ==
    pc \in Converted =>
        NodeOfType(graph, "Dataset").collection_date = dataset.collection_date

\* The record of the scenario of C3, its format given as f.
ScenarioData(f) ==
    /\ FullData
    /\ data.id = 1
    /\ data.md5_checksum = "d01f6ccd68c88b749b20bbe897de3713"
    /\ data.format = f
    /\ data.upload_date = datetime(2014, 4, 6, 23, 19, 20, 0)
    /\ data.visibility \in Visibility
    /\ data.status \in DatasetStatus

\* The graph of the scenario of C3.
ScenarioGraph ==
    /\ NodeOfType(graph, "Distribution").access_url = <<"https://www.openml.org/d/1">>
    /\ Resolves(graph, NodeOfType(graph, "Distribution").checksum, "Checksum")
    /\ NodeOfType(graph, "Checksum").value = "d01f6ccd68c88b749b20bbe897de3713"
    /\ NodeOfType(graph, "Dataset").issued =
          [type_ |-> "http://www.w3.org/2001/XMLSchema#dateTime",
           value |-> "2014-04-06 23:19:20"]

\* For every record: accessUrl is the template applied to the id, the
\* Checksum node the checksum reference names holds the md5 checksum, and
\* issued is the qualified literal of the upload date.
GraphOfRecord ==
    /\ NodeOfType(graph, "Distribution").access_url =
          <<"https://www.openml.org/d/" \o str_int(data.id)>>
    /\ \A i \in NodesWithId(graph, NodeOfType(graph, "Distribution").checksum.id_) :
          graph.graph[i].value = data.md5_checksum
    /\ NodeOfType(graph, "Dataset").issued =
          [type_ |-> XsdDateTime, value |-> str_datetime(data.upload_date)]

\* C3 as claimed: the record of the scenario with format "ARFF" is converted
\* to the graph of the scenario.
C3_ScenarioUpperCase ==
    (ScenarioData("ARFF") /\ pc # "record") =>
        /\ pc \in Converted
        /\ ScenarioGraph
        /\ GraphOfRecord

\* C3 as amended: the record of the scenario with format "arff" is converted
\* to a graph whose Distribution has accessUrl https://www.openml.org/d/1,
\* whose checksum reference resolves to a Checksum node with the md5 value,
\* and whose Dataset has issued "2014-04-06 23:19:20" typed xsd:dateTime; for
\* every record accessUrl is the template applied to the id, the Checksum
\* value the md5 checksum and issued the literal of upload_date.
C3_Scenario ==
    /\ (ScenarioData("arff") /\ pc # "record") => (pc \in Converted /\ ScenarioGraph)
    /\ pc \in Converted => GraphOfRecord

\* C3's case: the scenario's record was converted.
C3_Witness ==
    /\ pc = "graph"
    /\ ScenarioData("arff")
    /\ NodeOfType(graph, "Distribution").access_url = <<"https://www.openml.org/d/1">>

\* str.lower() of the format strings the model draws.
lower(s) == IF s = "ARFF" THEN "arff" ELSE s

\* C4 as claimed: whatever the letter case of the format the record is given,
\* the conversion yields a Distribution whose format is its lower-cased form.
C4_FormatLowerCased ==
    (FullData /\ data.visibility \in Visibility /\ data.status \in DatasetStatus
       /\ lower(data.format) \in DatasetFileFormat /\ pc # "record") =>
        /\ pc \in Converted
        /\ NodeOfType(graph, "Distribution").format_ = lower(data.format)

\* C4 as amended: the Distribution's format is the record's format unchanged;
\* a record is only built from a format of the lower-case vocabulary (arff,
\* sparse_arff, parquet), and a format in another letter case ("ARFF") makes
\* the record's construction raise.
C4_FormatCopied ==
    (FullData /\ pc # "idle") =>
        IF data.format \in DatasetFileFormat
        THEN pc \in Converted => NodeOfType(graph, "Distribution").format_ = data.format
        ELSE pc = "invalid" /\ raised = ValidationError

\* C4's case: a record given as "sparse_arff" was converted.
C4_Witness ==
    /\ pc = "graph"
    /\ data.format = "sparse_arff"
    /\ NodeOfType(graph, "Distribution").format_ = "sparse_arff"

\* The type tags of the top-level nodes, in order.
NodeTypes(g) == [i \in DOMAIN g.graph |-> g.graph[i].type_]

\* C5: every returned graph has the fixed context URI and exactly six nodes,
\* in the order DataService, Distribution, Dataset, Feature, Quality, Checksum.
C5_GraphShape ==
    pc \in Converted =>
        /\ graph.context =
              "https://semiceu.github.io/MLDCAT-AP/releases/1.0.0/context/mldcat-ap.jsonld"
        /\ NodeTypes(graph) =
              <<"DataService", "Distribution", "Dataset", "Feature", "Quality", "Checksum">>

\* C5's case: a graph was returned for a private record given as parquet.
C5_Witness ==
    /\ pc = "graph"
    /\ dataset.visibility = "private"
    /\ dataset.format_ = "parquet"
    /\ Len(graph.graph) = 6

EmptyListSupplied(kw) ==
    \/ "title" \in DOMAIN kw /\ kw["title"] = <<>>
    \/ "description" \in DOMAIN kw /\ kw["description"] = <<>>

KeyMissing(d) == \E k \in DatasetMetadataKeys : k \notin DOMAIN d

\* C8: constructing a DatasetMetadata raises ValidationError and yields no
\* record whenever a required field is absent or status is outside {active,
\* deactivated, in processing, in_preparation}, visibility outside {public,
\* private} or format outside {arff, sparse_arff, parquet}; it succeeds only
\* when every enumerated field is in its vocabulary.
C8_RecordValidation ==
    built = "DatasetMetadata" =>
        IF KeyMissing(data)
        THEN pc = "invalid" /\ raised = ValidationError /\ dataset = NoValue
        ELSE IF \/ data.status \notin {"active", "deactivated", "in processing",
                                       "in_preparation"}
                \/ data.visibility \notin {"public", "private"}
                \/ data.format \notin {"arff", "sparse_arff", "parquet"}
        THEN pc = "invalid" /\ raised = ValidationError /\ dataset = NoValue
        ELSE pc # "invalid" /\ dataset.status = data.status
             /\ dataset.visibility = data.visibility /\ dataset.format_ = data.format

\* C8's case: a construction with a status outside the vocabulary, all else
\* valid, raised.
C8_Witness ==
    /\ pc = "invalid"
    /\ raised = ValidationError
    /\ ~KeyMissing(data)
    /\ data.status = "archived"
    /\ data.visibility = "public"
    /\ data.format = "arff"

\* No two fields of a class share a serialization alias.
AliasesDistinct(c) ==
    Cardinality({serialization_alias(c, n) : n \in FieldNames(model_fields(c))})
        = Cardinality(FieldNames(model_fields(c)))

C10_FeatureQualityNonEmpty ==
    /\ (pc = "node" /\ built = "Distribution") =>
        /\ Len(node.has_feature) >= 1
        /\ Len(node.has_quality) >= 1
    /\ pc \in Converted =>
        /\ Len(NodeOfType(graph, "Distribution").has_feature) >= 1
        /\ Len(NodeOfType(graph, "Distribution").has_quality) >= 1

\* The phases in which the caller holds the record and the returned graph.
Held == Converted \cup {"assigned"}

\* C11 as claimed: once the record and the graph are constructed, no later
\* operation (an assignment to a field of the record, of a node, or to the
\* graph's node list) changes any of their field values: the graph and the
\* record stay equal to their values at return time.
C11_ImmutableAfterConstruction ==
    [][(pc \in Held /\ pc' \in Held) => (graph' = graph /\ dataset' = dataset)]_vars
====
